---- MODULE Spec2Model ----
(***************************************************************************)
(* A model of the cosmic-ray fork's local distributor                      *)
(* (cosmic_ray/distribution/local.py) and of two of its mutation operators *)
(* (remove_decorator.py, variable_replacer.py).                            *)
(*                                                                         *)
(* Python strings are sequences of one-character strings, so that          *)
(* shlex.split and the f-string of the test command are computed           *)
(* character by character.                                                 *)
(***************************************************************************)
EXTENDS Integers, Sequences, FiniteSets, TLC

VARIABLES
    work_db,        \* the Work Database: a sequence of item records
    test_command,   \* the run's test command (a string)
    timeout,        \* the run's timeout
    pending_work,   \* the sequence of WorkItems given to _process
    pc,             \* where __call__/_process is
    pos,            \* number of items of pending_work the for loop has finished
    running,        \* job ids whose mutate_and_test call is in flight
    calls,          \* the mutate_and_test calls of this run, in order
    execs,          \* what happened in each finished call (the environment's choice)
    result,         \* the value the last mutate_and_test returned
    notified,       \* the on_task_complete invocations of this run, in order
    error,          \* the exception that left _process, or "none"
    runs,           \* number of runs started
    start_db,       \* the Work Database as it was when this run started
    on_task_complete, \* what the callback given to __call__ does with a StateConflict
    decorator_list, \* RemoveDecorator: node.decorator_list
    dec_orig,       \* the decorator list before the operator ran
    dec_pc,         \* where the RemoveDecorator operator is
    dec_variants,   \* the number of variants given to visit_mutation_site
    dec_idx,        \* the idx given to mutate
    r_cause,        \* VariableReplacer: self.cause_variable
    r_effect,       \* self.effect_variable
    r_parent_else,  \* whether the if statement the suite belongs to has an else
    r_suite,        \* the suite node given to the operator
    r_orig,         \* the suite before the operator ran
    r_rand,         \* the values random.randint will return, in order
    r_pc            \* where the VariableReplacer operator is

dvars == <<work_db, test_command, timeout, pending_work, pc, pos, running,
           calls, execs, result, notified, error, runs, start_db, on_task_complete>>

\* the state of the RemoveDecorator operator
ovars == <<decorator_list, dec_orig, dec_pc, dec_variants, dec_idx>>

\* the state of the VariableReplacer operator
rvars == <<r_cause, r_effect, r_parent_else, r_suite, r_orig, r_rand, r_pc>>

vars == <<dvars, ovars, rvars>>

----------------------------------------------------------------------------
(* Bounds of the model *)

MaxItems == 2
MaxRuns == 2
MaxDuration == 3

----------------------------------------------------------------------------
(* Strings *)

SP == " "
QUOTE == "'"
DQUOTE == "\""
BACKSLASH == "\\"

\* shlex.whitespace
Whitespace == {SP, "\t", "\r", "\n"}

\* The test commands the runs are given: well formed ones, and malformed ones.
CmdT5 == <<"r", " ", "-", "t", " ", "5">>
CmdT5Spaces == <<" ", "r", " ", " ", "-", "t", " ", "1", "2", " ">>
CmdTwoT == <<"-", "t", " ", "3", " ", "-", "t", " ", "7">>
CmdQuotedN == <<"r", " ", "-", "t", " ", "'", "4", " ", "2", "'">>
CmdQuotedFlag == <<"'", "-", "t", "'", " ", "9">>
CmdNoT == <<"r", " ", "-", "x", " ", "5">>
CmdTLast == <<"r", " ", "-", "t">>
CmdTGlued == <<"r", " ", "-", "t", "5">>
CmdOpenQuote == <<"r", " ", "-", "t", " ", "'", "5">>
CmdEmpty == <<>>
CmdTab == <<"r", " ", "-", "t", "\t", "5">>
CmdDoubleQuotedN == <<"r", " ", "-", "t", " ", "\"", "5", "\"">>
CmdDoubleQuotedFlag == <<"r", " ", "\"", "-", "t", "\"", "\n", "5">>
CmdEscapedBlank == <<"r", " ", "-", "t", " ", "4", "\\", " ", "2">>
CmdEscapeInQuotes == <<"-", "t", " ", "\"", "a", "\\", "\"", "\\", "b", "\"">>
CmdOpenDoubleQuote == <<"r", " ", "-", "t", " ", "\"", "5">>
CmdTrailingBackslash == <<"r", " ", "-", "t", " ", "5", "\\">>

TestCommands ==
    {CmdT5, CmdT5Spaces, CmdTwoT, CmdQuotedN, CmdQuotedFlag,
     CmdNoT, CmdTLast, CmdTGlued, CmdOpenQuote, CmdEmpty,
     CmdTab, CmdDoubleQuotedN, CmdDoubleQuotedFlag, CmdEscapedBlank,
     CmdEscapeInQuotes, CmdOpenDoubleQuote, CmdTrailingBackslash}

\* shlex.split(s): the tokens shlex reads in POSIX mode with whitespace_split
\* and no comment characters, or the ValueError of an open quotation or of an
\* escape character at the end.  st is the state of shlex.read_token: "ws"
\* between tokens, "tok" inside a token, "squote" and "dquote" inside a
\* quoted part, "esc_tok" and "esc_dquote" after an escape character met in
\* a token and inside double quotes.
RECURSIVE ShlexScan(_, _, _, _, _)
ShlexScan(s, i, st, cur, toks) ==
    IF i > Len(s)
    THEN CASE st \in {"squote", "dquote", "esc_tok", "esc_dquote"} ->
                [err |-> "ValueError", tokens |-> <<>>]
           [] st = "tok" -> [err |-> "none", tokens |-> Append(toks, cur)]
           [] OTHER      -> [err |-> "none", tokens |-> toks]
    ELSE LET c == s[i] IN
         CASE st = "squote" /\ c = QUOTE     -> ShlexScan(s, i + 1, "tok", cur, toks)
           [] st = "squote"                  -> ShlexScan(s, i + 1, "squote", Append(cur, c), toks)
           [] st = "dquote" /\ c = DQUOTE    -> ShlexScan(s, i + 1, "tok", cur, toks)
           [] st = "dquote" /\ c = BACKSLASH -> ShlexScan(s, i + 1, "esc_dquote", cur, toks)
           [] st = "dquote"                  -> ShlexScan(s, i + 1, "dquote", Append(cur, c), toks)
           [] st = "esc_dquote" ->
                \* inside double quotes the escape character is kept unless it
                \* stands before a double quote or another escape character
                ShlexScan(s, i + 1, "dquote",
                          IF c \in {DQUOTE, BACKSLASH} THEN Append(cur, c)
                          ELSE cur \o <<BACKSLASH, c>>, toks)
           [] st = "esc_tok"                 -> ShlexScan(s, i + 1, "tok", Append(cur, c), toks)
           [] c \in Whitespace /\ st = "tok" -> ShlexScan(s, i + 1, "ws", <<>>, Append(toks, cur))
           [] c \in Whitespace               -> ShlexScan(s, i + 1, "ws", <<>>, toks)
           [] c = BACKSLASH                  -> ShlexScan(s, i + 1, "esc_tok", cur, toks)
           [] c = QUOTE                      -> ShlexScan(s, i + 1, "squote", cur, toks)
           [] c = DQUOTE                     -> ShlexScan(s, i + 1, "dquote", cur, toks)
           [] OTHER                          -> ShlexScan(s, i + 1, "tok", Append(cur, c), toks)

ShlexSplit(s) == ShlexScan(s, 1, "ws", <<>>, <<>>)

FlagT == <<"-", "t">>

\* list.index('-t'): the 0-based position of the first token equal to "-t",
\* or -1 where Python raises ValueError.
ListIndex(tokens, x) ==
    IF \E k \in 1..Len(tokens) : tokens[k] = x
    THEN (CHOOSE k \in 1..Len(tokens) :
              tokens[k] = x /\ \A m \in 1..(k - 1) : tokens[m] # x) - 1
    ELSE -1

\* Lines 32-34 of _process: the token after '-t', or the exception raised.
ParseNTests(cmd) ==
    LET sp == ShlexSplit(cmd) IN
    IF sp.err # "none" THEN [err |-> sp.err, n_tests |-> <<>>]
    ELSE LET at == ListIndex(sp.tokens, FlagT) IN
         IF at = -1 THEN [err |-> "ValueError", n_tests |-> <<>>]
         ELSE LET n_tests_index == at + 1 IN
              \* Python indexes from 0: element n_tests_index is tokens[n_tests_index + 1]
              IF n_tests_index + 1 > Len(sp.tokens)
              THEN [err |-> "IndexError", n_tests |-> <<>>]
              ELSE [err |-> "none", n_tests |-> sp.tokens[n_tests_index + 1]]

\* A mutant of ItemCommand: the output file does not depend on the job.
ItemCommandSharedOutput(cmd, n_tests, job_id) ==
    cmd \o <<" ", "-", "o", " ", "t">> \o n_tests \o <<"/", "o", "u", "t">>
        \o <<".", "j", "s", "o", "n">>

\* Line 37: test_command + f" -o t{n_tests}/{work_item.job_id}.json"
ItemCommand(cmd, n_tests, job_id) ==
    cmd \o <<" ", "-", "o", " ", "t">> \o n_tests \o <<"/">> \o job_id
        \o <<".", "j", "s", "o", "n">>

----------------------------------------------------------------------------
(* WorkItems, the Work Database and the test executor *)

JobA == <<"a">>
JobB == <<"b">>
JobAB == <<"a", "b">>

\* job ids are unique strings
JobIds == {JobA, JobB, JobAB}

\* Each WorkItem bundles its own mutations.
MutationsOf(j) == <<[operator_name |-> "op", occurrence_index |-> Len(j), module_path |-> j]>>

Timeouts == {1, 2}

NoOutcome == [status |-> "NONE", survived |-> FALSE, output |-> <<>>]

\* An outcome recorded by an earlier, finished run.
EarlierOutcome(j) ==
    [status |-> "COMPLETE", survived |-> FALSE,
     output |-> [mutations |-> MutationsOf(j), test_command |-> <<"o", "l", "d">>]]

RECURSIVE DistinctSeqs(_, _)
DistinctSeqs(S, n) ==
    IF n = 0 THEN {<<>>}
    ELSE LET shorter == DistinctSeqs(S, n - 1) IN
         shorter \cup {Append(q, x) : <<q, x>> \in
                          {<<q2, x2>> \in shorter \X S :
                               \A k \in 1..Len(q2) : q2[k] # x2}}

DbRecord(j, st) ==
    [job_id |-> j, mutations |-> MutationsOf(j), status |-> st,
     outcome |-> IF st = "COMPLETE" THEN EarlierOutcome(j) ELSE NoOutcome]

\* The Work Databases a run can start from: distinct job ids, each item
\* PENDING, already COMPLETE, or left RUNNING by an interrupted run.
InitialDbs ==
    UNION {{[k \in 1..Len(q) |-> DbRecord(q[k], sts[k])] :
               sts \in [1..Len(q) -> {"PENDING", "RUNNING", "COMPLETE"}]} :
           q \in DistinctSeqs(JobIds, MaxItems)}

\* The elements of seq at the positions of S, in the order of seq.
SubSeqAt(seq, S) ==
    LET pick[i \in 0..Len(seq)] ==
            IF i = 0 THEN <<>>
            ELSE IF i \in S THEN Append(pick[i - 1], seq[i]) ELSE pick[i - 1]
    IN pick[Len(seq)]

\* The WorkItem of a record of the database.
WorkItemOf(r) == [job_id |-> r.job_id, mutations |-> r.mutations]

\* The values the pending_work argument of __call__ can take: any selection
\* of the database's WorkItems, whatever their status.
PendingWorkArguments(db) ==
    {SubSeqAt([k \in 1..Len(db) |-> WorkItemOf(db[k])], S) : S \in SUBSET (1..Len(db))}

\* get_pending(): the items still PENDING, in the database's order.
GetPending(db) ==
    LET pend == SelectSeq(db, LAMBDA r : r.status = "PENDING") IN
    [k \in 1..Len(pend) |-> WorkItemOf(pend[k])]

\* record_result(job_id, outcome), which the callback given as
\* on_task_complete calls: the outcome is attached to the job's record and
\* the record becomes terminal; on a job that is not RUNNING it fails with
\* StateConflict and the database is left as it was.
RecordResult(db, job_id, outcome) ==
    IF \E k \in 1..Len(db) : db[k].job_id = job_id /\ db[k].status = "RUNNING"
    THEN [err |-> "none",
          db |-> [k \in 1..Len(db) |->
                     IF db[k].job_id = job_id
                     THEN [db[k] EXCEPT !.status = outcome.status, !.outcome = outcome]
                     ELSE db[k]]]
    ELSE [err |-> "StateConflict", db |-> db]

\* What the environment decides about one execution: the mutation site is
\* gone, the executor raises, or the tests run for `duration` and pass or fail.
ExecEnvs ==
    {[kind |-> "tests", duration |-> d, passed |-> p] :
         d \in 1..MaxDuration, p \in BOOLEAN}
    \cup {[kind |-> "site_not_found", duration |-> 0, passed |-> FALSE],
          [kind |-> "raise", duration |-> 0, passed |-> FALSE]}

\* mutate_and_test(mutations, test_command, timeout) in environment env.
MutateAndTest(call, env) ==
    LET out == [mutations |-> call.mutations, test_command |-> call.test_command] IN
    CASE env.kind = "raise" ->
           [raised |-> TRUE, value |-> NoOutcome]
      [] env.kind = "site_not_found" ->
           [raised |-> FALSE,
            value |-> [status |-> "ERRORED", survived |-> FALSE, output |-> out]]
      [] env.duration > call.timeout ->
           [raised |-> FALSE,
            value |-> [status |-> "TIMED_OUT", survived |-> TRUE, output |-> out]]
      [] OTHER ->
           [raised |-> FALSE,
            value |-> [status |-> "COMPLETE", survived |-> env.passed, output |-> out]]

----------------------------------------------------------------------------
(* LocalDistributor *)

\* A mutant of CurrentItem: the loop walks pending_work from its end.
CurrentItemReversed(pw, n) == pw[Len(pw) - n]

\* Line 31: the item the for loop binds after n finished iterations.
CurrentItem(pw, n) == pw[n + 1]

\* Lines 31, 40: after on_task_complete the for loop moves to the next item.
LoopAfterNotify(n) == n + 1

\* A mutant of CallArguments: the timeout handed on is not the run's.
CallArgumentsOtherTimeout(work_item, cmd, n_tests, t) ==
    [mutations |-> work_item.mutations,
     test_command |-> ItemCommand(cmd, n_tests, work_item.job_id),
     timeout |-> t + 1]

\* Lines 35-39: the keyword arguments of the mutate_and_test call.
CallArguments(work_item, cmd, n_tests, t) ==
    [mutations |-> work_item.mutations,
     test_command |-> ItemCommand(cmd, n_tests, work_item.job_id),
     timeout |-> t]

\* A mutant of CallbackArguments: the result is reported under the job id of
\* the first item of pending_work.
CallbackArgumentsFirstJob(work_item, res) ==
    [job_id |-> pending_work[1].job_id, outcome |-> res]

\* Line 40: the positional arguments of the on_task_complete call.
CallbackArguments(work_item, res) ==
    [job_id |-> work_item.job_id, outcome |-> res]

\* The callback the caller passes as on_task_complete records the outcome
\* with record_result.  When record_result fails with StateConflict the
\* callback either keeps the failure to itself and returns, or lets the
\* exception out to its caller.
Callbacks == {"contains", "raises"}

\* Whether on_task_complete(job_id, outcome) raises, and what it raises.
CallbackError(db, callback, args) ==
    IF callback = "raises"
    THEN RecordResult(db, args.job_id, args.outcome).err
    ELSE "none"

DInit ==
    /\ work_db \in InitialDbs
    /\ test_command \in TestCommands
    /\ timeout \in Timeouts
    /\ pending_work = <<>>
    /\ pc = "idle"
    /\ pos = 0
    /\ running = {}
    /\ calls = <<>>
    /\ execs = <<>>
    /\ result = NoOutcome
    /\ notified = <<>>
    /\ error = "none"
    /\ runs = 0
    /\ start_db = work_db
    /\ on_task_complete \in Callbacks
    \* the operators are not in use while the distributor runs
    /\ decorator_list = <<>>
    /\ dec_orig = <<>>
    /\ dec_pc = "unused"
    /\ dec_variants = 0
    /\ dec_idx = 0
    /\ r_cause = ""
    /\ r_effect = ""
    /\ r_parent_else = FALSE
    /\ r_suite = <<>>
    /\ r_orig = <<>>
    /\ r_rand = <<>>
    /\ r_pc = "unused"

\* __call__(pending_work, ...): the caller hands the WorkItems pw to the
\* distributor, which runs _process on the event loop.  Nothing in __call__
\* or _process looks at the status of the items handed over.
CallWith(pw) ==
    /\ pc \in {"idle", "returned", "raised"}
    /\ runs < MaxRuns
    /\ runs' = runs + 1
    /\ pending_work' = pw
    /\ start_db' = work_db
    /\ pc' = "loop"
    /\ pos' = 0
    /\ running' = {}
    /\ calls' = <<>>
    /\ execs' = <<>>
    /\ result' = NoOutcome
    /\ notified' = <<>>
    /\ error' = "none"
    /\ UNCHANGED <<work_db, test_command, timeout, on_task_complete>>
    /\ UNCHANGED <<ovars, rvars>>

\* A run of the scheduler: the distributor is handed what get_pending() returns.
Call == CallWith(GetPending(work_db))

\* A run for a caller that does not filter: the distributor is handed any
\* selection of the database's WorkItems.
CallAnyItems == \E pw \in PendingWorkArguments(work_db) : CallWith(pw)

\* The for loop is exhausted: _process returns and so does __call__.
LoopExit ==
    /\ pc = "loop"
    /\ pos = Len(pending_work)
    /\ pc' = "returned"
    /\ UNCHANGED <<work_db, test_command, timeout, pending_work, pos, running,
                   calls, execs, result, notified, error, runs, start_db, on_task_complete>>
    /\ UNCHANGED <<ovars, rvars>>

\* Lines 32-34 raise: the exception leaves _process and __call__.
ParseError ==
    /\ pc = "loop"
    /\ pos < Len(pending_work)
    /\ ParseNTests(test_command).err # "none"
    /\ pc' = "raised"
    /\ error' = ParseNTests(test_command).err
    /\ UNCHANGED <<work_db, test_command, timeout, pending_work, pos, running,
                   calls, execs, result, notified, runs, start_db, on_task_complete>>
    /\ UNCHANGED <<ovars, rvars>>

\* Lines 32-39: mutate_and_test is called for the current item and awaited.
Dispatch ==
    /\ pc = "loop"
    /\ pos < Len(pending_work)
    /\ ParseNTests(test_command).err = "none"
    /\ LET work_item == CurrentItem(pending_work, pos)
           n_tests == ParseNTests(test_command).n_tests
       IN /\ calls' = Append(calls, CallArguments(work_item, test_command, n_tests, timeout))
          /\ running' = running \cup {work_item.job_id}
    /\ pc' = "await"
    /\ UNCHANGED <<work_db, test_command, timeout, pending_work, pos,
                   execs, result, notified, error, runs, start_db, on_task_complete>>
    /\ UNCHANGED <<ovars, rvars>>

\* Line 35: the awaited call returns its result.
AwaitReturns ==
    /\ pc = "await"
    /\ \E env \in ExecEnvs :
         LET r == MutateAndTest(calls[Len(calls)], env) IN
         /\ ~r.raised
         /\ result' = r.value
         /\ execs' = Append(execs, env)
    /\ running' = running \ {CurrentItem(pending_work, pos).job_id}
    /\ pc' = "notify"
    /\ UNCHANGED <<work_db, test_command, timeout, pending_work, pos,
                   calls, notified, error, runs, start_db, on_task_complete>>
    /\ UNCHANGED <<ovars, rvars>>

\* Line 35: the awaited call raises; nothing in _process catches it.
AwaitRaises ==
    /\ pc = "await"
    /\ \E env \in ExecEnvs :
         /\ MutateAndTest(calls[Len(calls)], env).raised
         /\ execs' = Append(execs, env)
    /\ running' = running \ {CurrentItem(pending_work, pos).job_id}
    /\ pc' = "raised"
    /\ error' = "ExecutorCrash"
    /\ UNCHANGED <<work_db, test_command, timeout, pending_work, pos,
                   calls, result, notified, runs, start_db, on_task_complete>>
    /\ UNCHANGED <<ovars, rvars>>

\* Line 40: on_task_complete(work_item.job_id, result) returns, and the
\* for loop goes on to the next item.
Notify ==
    /\ pc = "notify"
    /\ LET args == CallbackArguments(CurrentItem(pending_work, pos), result) IN
       /\ CallbackError(work_db, on_task_complete, args) = "none"
       /\ notified' = Append(notified, args)
       /\ work_db' = RecordResult(work_db, args.job_id, args.outcome).db
    /\ pos' = LoopAfterNotify(pos)
    /\ pc' = "loop"
    /\ UNCHANGED <<test_command, timeout, pending_work, running,
                   calls, execs, result, error, runs, start_db, on_task_complete>>
    /\ UNCHANGED <<ovars, rvars>>

\* Line 40: on_task_complete(work_item.job_id, result) raises.  The call is
\* not inside a try, so the exception leaves _process and __call__: the loop
\* does not advance and the later items are neither executed nor notified.
CallbackRaises ==
    /\ pc = "notify"
    /\ LET args == CallbackArguments(CurrentItem(pending_work, pos), result) IN
       /\ CallbackError(work_db, on_task_complete, args) # "none"
       /\ notified' = Append(notified, args)
       /\ error' = CallbackError(work_db, on_task_complete, args)
    /\ pc' = "raised"
    /\ UNCHANGED <<work_db, test_command, timeout, pending_work, pos, running,
                   calls, execs, result, runs, start_db, on_task_complete>>
    /\ UNCHANGED <<ovars, rvars>>

DNext ==
    \/ Call \/ LoopExit \/ ParseError \/ Dispatch
    \/ AwaitReturns \/ AwaitRaises \/ Notify \/ CallbackRaises

Spec == DInit /\ [][DNext]_vars

\* The distributor with a caller that hands over any WorkItems.
AnyNext ==
    \/ CallAnyItems \/ LoopExit \/ ParseError \/ Dispatch
    \/ AwaitReturns \/ AwaitRaises \/ Notify \/ CallbackRaises

SpecAnyCaller == DInit /\ [][AnyNext]_vars

----------------------------------------------------------------------------
(* Vocabulary of the properties of the distributor *)

RunEnded == pc \in {"returned", "raised"}

SubmittedJobs == {pending_work[k].job_id : k \in 1..Len(pending_work)}

TimesNotified(j) == Cardinality({k \in 1..Len(notified) : notified[k].job_id = j})

\* The well-formed test commands among TestCommands with the token that
\* follows their first -t flag, as Python's shlex.split gives it.
ExpectedNTests ==
    (CmdT5 :> <<"5">>) @@ (CmdT5Spaces :> <<"1", "2">>) @@ (CmdTwoT :> <<"3">>)
    @@ (CmdQuotedN :> <<"4", " ", "2">>) @@ (CmdQuotedFlag :> <<"9">>)
    @@ (CmdTab :> <<"5">>) @@ (CmdDoubleQuotedN :> <<"5">>)
    @@ (CmdDoubleQuotedFlag :> <<"5">>) @@ (CmdEscapedBlank :> <<"4", " ", "2">>)
    @@ (CmdEscapeInQuotes :> <<"a", "\"", "\\", "b">>)

WellFormed(cmd) == cmd \in DOMAIN ExpectedNTests

ConfigurationErrors == {"ValueError", "IndexError"}

\* The status the Work Database holds for job j.
StatusOf(db, j) ==
    LET at == CHOOSE k \in 1..Len(db) : db[k].job_id = j IN db[at].status

TerminalStatuses == {"COMPLETE", "TIMED_OUT", "ERRORED"}

----------------------------------------------------------------------------
(* C1..C8: the local distributor *)

\* C1: when a run given a well-formed test command ends, on_task_complete has
\* been invoked exactly once for each job_id of pending_work, whatever the
\* outcome of each item's execution was.
C1_ExactlyOncePerJob ==
    (RunEnded /\ WellFormed(test_command))
        => \A j \in SubmittedJobs : TimesNotified(j) = 1

\* C2: a failure while processing one WorkItem (a mutation site that is gone,
\* an exception raised out of mutate_and_test) never aborts the run: the item
\* is reported as ERRORED and the items after it are executed and notified.
C2_FailuresContained ==
    /\ error # "ExecutorCrash"
    /\ \A k \in 1..Len(execs) :
          (execs[k].kind \in {"site_not_found", "raise"} /\ RunEnded)
              => /\ Len(notified) = Len(pending_work)
                 /\ notified[k].outcome.status = "ERRORED"

\* C3: with a malformed test command the run fails with a configuration error
\* before any WorkItem is dispatched (no mutate_and_test call, no
\* on_task_complete call), for every pending_work; and no other error aborts
\* a run.
C3_MalformedFailsFast ==
    /\ (~WellFormed(test_command) /\ RunEnded)
          => /\ pc = "raised"
             /\ error \in ConfigurationErrors
             /\ calls = <<>>
             /\ notified = <<>>
    /\ (pc = "raised") => (error \in ConfigurationErrors /\ ~WellFormed(test_command))

\* C4: items are processed one at a time in submission order: at most one
\* execution is in flight, the execution of item i+1 starts only after
\* on_task_complete was called for item i, the notifications come in the
\* order of pending_work, and __call__ returns only after the last item.
C4_SequentialInOrder ==
    /\ Cardinality(running) <= 1
    /\ Len(calls) <= Len(notified) + 1
    /\ \A k \in 1..Len(calls) : calls[k].mutations = pending_work[k].mutations
    /\ Len(notified) <= Len(pending_work)
    /\ \A k \in 1..Len(notified) : notified[k].job_id = pending_work[k].job_id
    /\ (pc = "returned") => Len(notified) = Len(pending_work)

\* C4's case: a run over two items has returned.
C4_Witness ==
    pc = "returned" /\ Len(pending_work) >= 2 /\ Len(notified) = Len(pending_work)

\* The items of db whose status is st.
WithStatus(db, st) == {k \in 1..Len(db) : db[k].status = st}

\* The items of start_db that had not reached COMPLETE when the run started.
NotYetComplete == {m \in 1..Len(start_db) : start_db[m].status # "COMPLETE"}

\* C5: WorkItems already COMPLETE are never executed again: a run executes
\* no item that was COMPLETE when it started and leaves the recorded outcome
\* of such an item unchanged; it executes each other item at most once, and
\* when it returns it has executed exactly the items that had not reached
\* COMPLETE (none when every item was COMPLETE).
C5_CompleteNeverRerun ==
    /\ \A k \in 1..Len(calls) :
          \E m \in NotYetComplete : start_db[m].mutations = calls[k].mutations
    /\ \A k, m \in 1..Len(calls) : calls[k].mutations = calls[m].mutations => k = m
    /\ \A m \in WithStatus(start_db, "COMPLETE") : work_db[m] = start_db[m]
    /\ (pc = "returned") =>
          {calls[k].mutations : k \in 1..Len(calls)}
              = {start_db[m].mutations : m \in NotYetComplete}

\* The job ids get_pending() returns.
PendingJobs(db) == {GetPending(db)[k].job_id : k \in 1..Len(GetPending(db))}

\* C5 for a caller that filters: an item whose execution was reported as
\* COMPLETE through on_task_complete is no longer returned by get_pending(),
\* so that the next run does not execute it again.
ReportedCompleteNotPending ==
    \A k \in 1..Len(notified) :
        notified[k].outcome.status = "COMPLETE"
            => notified[k].job_id \notin PendingJobs(work_db)

\* What _process does guarantee: it executes the items of the pending_work
\* it was handed, each once and in order, and all of them when it returns.
ExecutesPendingWork ==
    /\ Len(calls) <= Len(pending_work)
    /\ \A k \in 1..Len(calls) : calls[k].mutations = pending_work[k].mutations
    /\ (pc = "returned") => Len(calls) = Len(pending_work)

\* What the database of the model guarantees: the record of an item that was
\* not RUNNING when the run started is never changed by the run.
RecordsOfOthersKept ==
    \A m \in 1..Len(start_db) :
        start_db[m].status # "RUNNING" => work_db[m] = start_db[m]

\* C6: an item is marked RUNNING before its mutations are applied and its
\* tests run, and on_task_complete is called for it only once it is in a
\* terminal state: PENDING, then RUNNING, then one terminal state.
C6_RunningBeforeTerminal ==
    /\ (pc \in {"await", "notify"})
          => StatusOf(work_db, CurrentItem(pending_work, pos).job_id) = "RUNNING"
    /\ \A k \in 1..Len(notified) :
          /\ notified[k].outcome.status \in TerminalStatuses
          /\ StatusOf(work_db, notified[k].job_id) = notified[k].outcome.status

OutputPath(call) ==
    SubSeq(call.test_command, Len(test_command) + 5, Len(call.test_command))

\* C8: the command of the item with job id J is the run's test command
\* followed by " -o t<n>/<J>.json", <n> being the token after -t; items with
\* different job ids get different output paths, and nothing of an earlier
\* item's output argument is in a later item's command.
C8_OwnOutputPath ==
    /\ \A k \in 1..Len(calls) :
          /\ WellFormed(test_command)
          /\ calls[k].test_command =
                test_command \o <<" ", "-", "o", " ">>
                    \o <<"t">> \o ExpectedNTests[test_command] \o <<"/">>
                    \o pending_work[k].job_id \o <<".", "j", "s", "o", "n">>
    /\ \A k, m \in 1..Len(calls) : k # m => OutputPath(calls[k]) # OutputPath(calls[m])

\* C8's case: two items were dispatched by one run.
C8_Witness ==
    /\ Len(calls) = 2
    /\ pending_work[1].job_id # pending_work[2].job_id
    /\ OutputPath(calls[2]) = <<"t", "3", "/">> \o pending_work[2].job_id \o <<".", "j", "s", "o", "n">>

\* The item of pending_work whose job id is j.
ItemOf(j) ==
    pending_work[CHOOSE m \in 1..Len(pending_work) : pending_work[m].job_id = j]

\* C11: every on_task_complete invocation pairs a job with its own outcome:
\* the outcome passed with job id J is, unchanged, the value returned by the
\* mutate_and_test call that was given the mutations of the WorkItem with job
\* id J, and it is the outcome of no other WorkItem's call.
C11_OwnOutcome ==
    /\ \A k \in 1..Len(notified) :
          /\ calls[k].mutations = ItemOf(notified[k].job_id).mutations
          /\ notified[k].outcome = MutateAndTest(calls[k], execs[k]).value
          /\ \A m \in 1..Len(calls) :
                (pending_work[m].job_id # notified[k].job_id)
                    => \A env \in ExecEnvs :
                           notified[k].outcome # MutateAndTest(calls[m], env).value
    /\ (pc = "notify") =>
          result = MutateAndTest(calls[Len(calls)], execs[Len(execs)]).value

\* C11's case: two items with different outcomes were notified, each under
\* its own job id.
C11_Witness ==
    /\ Len(notified) = 2
    /\ notified[1].job_id # notified[2].job_id
    /\ notified[1].outcome.status = "COMPLETE" /\ notified[1].outcome.survived
    /\ notified[2].outcome.status = "ERRORED"
    /\ notified[1].outcome.output.mutations = ItemOf(notified[1].job_id).mutations
    /\ notified[2].outcome.output.mutations = ItemOf(notified[2].job_id).mutations

----------------------------------------------------------------------------
(* RemoveDecorator (operators/remove_decorator.py) *)

MaxDecorators == 3

\* A decorator expression of the ast: a Name (@foo), an Attribute
\* (@app.route) or a Call (@wraps(f)).  Only a Name node has an id.
NameNode(id) == [cls |-> "Name", name |-> id]

DecoratorNodes ==
    {NameNode(n) : n \in {"classmethod", "staticmethod", "abstractmethod", "foo", "bar"}}
    \cup {[cls |-> "Attribute", name |-> "route"], [cls |-> "Call", name |-> "wraps"]}

\* Line 8
regular_decorators == {"classmethod", "staticmethod", "abstractmethod"}

\* x.id raises AttributeError on a node that is not a Name.
HasId(x) == x.cls = "Name"

\* Lines 11, 19: [x for x in node.decorator_list if x.id not in regular_decorators]
DecoratorCandidates(dl) == SelectSeq(dl, LAMBDA x : x.name \notin regular_decorators)

\* Line 21: [x for x in node.decorator_list if x.id in regular_decorators]
RegularOnes(dl) == SelectSeq(dl, LAMBDA x : x.name \in regular_decorators)

\* del lst[idx], idx counted from 0
DelAt(lst, idx) == SubSeq(lst, 1, idx) \o SubSeq(lst, idx + 2, Len(lst))

\* Lines 19-22: the decorator list mutate leaves in the node.
MutatedDecorators(dl, idx) == DelAt(DecoratorCandidates(dl), idx) \o RegularOnes(dl)

OInit ==
    /\ decorator_list \in UNION {[1..n -> DecoratorNodes] : n \in 0..MaxDecorators}
    /\ dec_orig = decorator_list
    /\ dec_pc = "parsed"
    /\ dec_variants = 0
    /\ dec_idx = 0
    \* the distributor and the other operator are not in use
    /\ work_db = <<>>
    /\ test_command = <<>>
    /\ timeout = 1
    /\ pending_work = <<>>
    /\ pc = "unused"
    /\ pos = 0
    /\ running = {}
    /\ calls = <<>>
    /\ execs = <<>>
    /\ result = NoOutcome
    /\ notified = <<>>
    /\ error = "none"
    /\ runs = 0
    /\ start_db = <<>>
    /\ on_task_complete = "unused"
    /\ r_cause = ""
    /\ r_effect = ""
    /\ r_parent_else = FALSE
    /\ r_suite = <<>>
    /\ r_orig = <<>>
    /\ r_rand = <<>>
    /\ r_pc = "unused"

\* Line 11 raises: a decorator of the list has no id.
VisitRaises ==
    /\ dec_pc = "parsed"
    /\ \E k \in 1..Len(decorator_list) : ~HasId(decorator_list[k])
    /\ dec_pc' = "AttributeError"
    /\ UNCHANGED <<decorator_list, dec_orig, dec_variants, dec_idx>>
    /\ UNCHANGED <<dvars, rvars>>

\* Lines 11-13: the function is a mutation site with one variant per candidate.
VisitSite ==
    /\ dec_pc = "parsed"
    /\ \A k \in 1..Len(decorator_list) : HasId(decorator_list[k])
    /\ DecoratorCandidates(decorator_list) # <<>>
    /\ dec_variants' = Len(DecoratorCandidates(decorator_list))
    /\ dec_pc' = "site"
    /\ UNCHANGED <<decorator_list, dec_orig, dec_idx>>
    /\ UNCHANGED <<dvars, rvars>>

\* Lines 11-15: no candidate, the node is returned as it is.
VisitNoSite ==
    /\ dec_pc = "parsed"
    /\ \A k \in 1..Len(decorator_list) : HasId(decorator_list[k])
    /\ DecoratorCandidates(decorator_list) = <<>>
    /\ dec_pc' = "unchanged"
    /\ UNCHANGED <<decorator_list, dec_orig, dec_variants, dec_idx>>
    /\ UNCHANGED <<dvars, rvars>>

\* Lines 17-24: mutate(node, idx) for one of the site's variants.
Mutate ==
    /\ dec_pc = "site"
    /\ \E i \in 0..(dec_variants - 1) :
         /\ dec_idx' = i
         /\ decorator_list' = MutatedDecorators(decorator_list, i)
    /\ dec_pc' = "mutated"
    /\ UNCHANGED <<dec_orig, dec_variants>>
    /\ UNCHANGED <<dvars, rvars>>

ONext == VisitRaises \/ VisitSite \/ VisitNoSite \/ Mutate

SpecDecorator == OInit /\ [][ONext]_vars

\* Number of times x occurs in lst.
Occurrences(lst, x) == Cardinality({k \in 1..Len(lst) : lst[k] = x})

\* The decorators other than @classmethod, @staticmethod, @abstractmethod.
NonStandard(dl) ==
    SelectSeq(dl, LAMBDA x : ~(x.cls = "Name" /\ x.name \in regular_decorators))

\* What C9 says of a list that mutate(node, i) turned into dl: it is orig
\* without the i-th non-standard decorator, everything else kept.
OneRemoved(orig, dl, i) ==
    LET gone == NonStandard(orig)[i + 1] IN
    /\ Len(dl) = Len(orig) - 1
    /\ \A x \in DecoratorNodes :
          Occurrences(dl, x) = Occurrences(orig, x) - (IF x = gone THEN 1 ELSE 0)

\* C9: a function with k >= 1 non-standard decorators is a mutation site with
\* exactly k variants, and mutate(node, idx) leaves every original decorator
\* but the idx-th non-standard one; a function with no non-standard decorator
\* is not mutated.
C9_RemovesOneDecorator ==
    (dec_pc \notin {"unused", "parsed"}) =>
        IF NonStandard(dec_orig) = <<>>
        THEN dec_pc = "unchanged" /\ decorator_list = dec_orig
        ELSE /\ dec_pc \in {"site", "mutated"}
             /\ dec_variants = Len(NonStandard(dec_orig))
             /\ (dec_pc = "mutated") => OneRemoved(dec_orig, decorator_list, dec_idx)

\* C9 on the functions whose decorators are all plain names.
RemovesOneNamedDecorator ==
    (\A k \in 1..Len(dec_orig) : HasId(dec_orig[k])) => C9_RemovesOneDecorator

\* The lists that are orig with exactly one element deleted.
OneDeleted(orig) == {DelAt(orig, k) : k \in 0..(Len(orig) - 1)}

\* C12: mutate(node, idx) keeps the decorators it does not remove in their
\* original relative order: the resulting decorator_list is the original
\* sequence with exactly one element deleted.
C12_OrderKept ==
    (dec_pc = "mutated") => decorator_list \in OneDeleted(dec_orig)

\* A standard decorator stands before (outside) a non-standard one.
RegularBeforeCandidate(dl) ==
    \E k, m \in 1..Len(dl) :
        /\ k < m
        /\ dl[k].name \in regular_decorators
        /\ dl[m].name \notin regular_decorators

\* C12 on the lists whose standard decorators all come after the others:
\* there line 21 puts them back where they were.
OrderKeptWhenRegularLast ==
    (dec_pc = "mutated" /\ ~RegularBeforeCandidate(dec_orig))
        => decorator_list \in OneDeleted(dec_orig)

\* mutate moved a standard decorator behind the non-standard ones it kept.
OrderChangedState ==
    /\ dec_pc = "mutated"
    /\ dec_orig = <<NameNode("classmethod"), NameNode("foo"), NameNode("bar")>>
    /\ dec_idx = 0
    /\ decorator_list = <<NameNode("bar"), NameNode("classmethod")>>

----------------------------------------------------------------------------
(* VariableReplacer (operators/variable_replacer.py) *)

MaxDraws == 3

\* random.randint(-100, 100), line 156
RandintLow == -100
RandintHigh == 100

\* the values of randint the model draws from
RandintSamples == {RandintLow, 0, RandintHigh}

\* Nodes of the parso tree.  A Leaf has a value and no children; ExprStmt and
\* IfStmt are classes of their own, every other inner node is a PythonNode.
Leaf(type, value) == [cls |-> "Leaf", type |-> type, value |-> value, children |-> <<>>]
Name(v) == Leaf("name", v)
Number(v) == Leaf("number", v)
Operator(v) == Leaf("operator", v)
Keyword(v) == Leaf("keyword", v)
Newline == Leaf("newline", "\n")
PythonNode(type, children) == [cls |-> "PythonNode", type |-> type, value |-> "", children |-> children]
ExprStmt(children) == [cls |-> "ExprStmt", type |-> "expr_stmt", value |-> "", children |-> children]
IfStmt(children) == [cls |-> "IfStmt", type |-> "if_stmt", value |-> "", children |-> children]

IsLeaf(node) == node.cls = "Leaf"

\* a op b
Arith(a, op, b) == PythonNode("arith_expr", <<a, Operator(op), b>>)
Comparison(a, op, b) == PythonNode("comparison", <<a, Operator(op), b>>)
Parenthesised(e) == PythonNode("atom", <<Operator("("), e, Operator(")")>>)
\* the line "target = rhs"
Assign(target, rhs) ==
    PythonNode("simple_stmt", <<ExprStmt(<<Name(target), Operator("="), rhs>>), Newline>>)
Suite(stmts) == PythonNode("suite", <<Newline>> \o stmts)
If(test, body) == IfStmt(<<Keyword("if"), test, Operator(":"), body>>)
IfElse(test, body, orelse) ==
    IfStmt(<<Keyword("if"), test, Operator(":"), body, Keyword("else"), Operator(":"), orelse>>)

\*     y = x + z
SuiteAssign == Suite(<<Assign("y", Arith(Name("x"), "+", Name("z")))>>)

\*     y = x + z
\*     w = x * 2
SuiteTwoAssigns ==
    Suite(<<Assign("y", Arith(Name("x"), "+", Name("z"))),
            Assign("w", PythonNode("term", <<Name("x"), Operator("*"), Number("2")>>))>>)

\*     if (x + z) >= 10:
\*         y = z + 10
\*     else:
\*         y = z + x
SuiteIfElse ==
    Suite(<<IfElse(Comparison(Parenthesised(Arith(Name("x"), "+", Name("z"))), ">=", Number("10")),
                   Suite(<<Assign("y", Arith(Name("z"), "+", Number("10")))>>),
                   Suite(<<Assign("y", Arith(Name("z"), "+", Name("x")))>>))>>)

\*     y = z + 1
\*     if x + 1 < z:
\*         y = x + x
SuiteCauseLeftOfComparison ==
    Suite(<<Assign("y", Arith(Name("z"), "+", Number("1"))),
            If(Comparison(Arith(Name("x"), "+", Number("1")), "<", Name("z")),
               Suite(<<Assign("y", Arith(Name("x"), "+", Name("x")))>>))>>)

\*     if z > x:
\*         y = z + 1
SuiteCauseRightOfComparison ==
    Suite(<<If(Comparison(Name("z"), ">", Name("x")),
               Suite(<<Assign("y", Arith(Name("z"), "+", Number("1")))>>))>>)

\*     if x:
\*         y = x + 1
SuiteBarePredicate ==
    Suite(<<If(Name("x"), Suite(<<Assign("y", Arith(Name("x"), "+", Number("1")))>>))>>)

\*     y = x
SuiteLeafRhs == Suite(<<Assign("y", Name("x"))>>)

\*     y = w = x + z
SuiteChained ==
    Suite(<<PythonNode("simple_stmt",
               <<ExprStmt(<<Name("y"), Operator("="), Name("w"), Operator("="),
                            Arith(Name("x"), "+", Name("z"))>>), Newline>>)>>)

\*     pass
SuitePass == Suite(<<PythonNode("simple_stmt", <<Keyword("pass"), Newline>>)>>)

\* the line made of one statement
Line(stmt) == PythonNode("simple_stmt", <<stmt, Newline>>)

\*     y: int = x + z
\*     w = x * 2
SuiteAnnotated ==
    Suite(<<Line(ExprStmt(<<Name("y"),
                            PythonNode("annassign",
                                <<Operator(":"), Name("int"), Operator("="),
                                  Arith(Name("x"), "+", Name("z"))>>)>>)),
            Assign("w", PythonNode("term", <<Name("x"), Operator("*"), Number("2")>>))>>)

\*     y *= x + z
SuiteAugmented ==
    Suite(<<Line(ExprStmt(<<Name("y"), Operator("*="), Arith(Name("x"), "+", Name("z"))>>))>>)

\*     y, w = x + z
SuiteTupleTarget ==
    Suite(<<Line(ExprStmt(<<PythonNode("testlist_star_expr",
                                <<Name("y"), Operator(","), Name("w")>>),
                            Operator("="), Arith(Name("x"), "+", Name("z"))>>))>>)

\*     self.y = x + z
\*     a[w] = z + 1
SuiteAttributeTarget ==
    Suite(<<Line(ExprStmt(<<PythonNode("atom_expr",
                                <<Name("self"),
                                  PythonNode("trailer", <<Operator("."), Name("y")>>)>>),
                            Operator("="), Arith(Name("x"), "+", Name("z"))>>)),
            Line(ExprStmt(<<PythonNode("atom_expr",
                                <<Name("a"),
                                  PythonNode("trailer",
                                      <<Operator("["), Name("w"), Operator("]")>>)>>),
                            Operator("="), Arith(Name("z"), "+", Number("1"))>>))>>)

Suites ==
    {SuiteAssign, SuiteTwoAssigns, SuiteIfElse, SuiteCauseLeftOfComparison,
     SuiteCauseRightOfComparison, SuiteBarePredicate, SuiteLeafRhs, SuiteChained,
     SuitePass, SuiteAnnotated, SuiteAugmented, SuiteTupleTarget,
     SuiteAttributeTarget}

\* The values of the leaves below node, as _flatten_expr and
\* _flatten_comparison yield them.
RECURSIVE LeafValues(_)
LeafValues(node) ==
    IF IsLeaf(node) THEN {node.value}
    ELSE UNION {LeafValues(node.children[k]) : k \in 1..Len(node.children)}

\* ExprStmt.get_rhs(): the node after the last assignment operator, which
\* in an annotated assignment stands inside the annassign node.
GetRhs(expr) ==
    LET node == expr.children[Len(expr.children)] IN
    IF node.type = "annassign"
    THEN IF Len(node.children) = 4 THEN node.children[4] ELSE node.children[2]
    ELSE node

\* node == s, for a string s: an Operator or a Keyword leaf is equal to the
\* string of its value, any other node to no string.
EqualsString(node, s) ==
    IsLeaf(node) /\ node.type \in {"operator", "keyword"} /\ node.value = s

\* The values of operator leaves that hold the character "=".
ValuesWithEquals ==
    {"=", "+=", "-=", "*=", "/=", "//=", "%=", "**=", "@=", "&=", "|=", "^=",
     ">>=", "<<=", ":=", "==", "!=", "<=", ">="}

\* parso's _defined_names(current, include_setitem=False): the nodes a
\* target of an assignment defines.
RECURSIVE DefinedNamesOfTarget(_)
DefinedNamesOfTarget(current) ==
    CASE current.type \in {"testlist_star_expr", "testlist_comp", "exprlist", "testlist"} ->
           UNION {DefinedNamesOfTarget(current.children[k]) :
                     k \in {m \in 1..Len(current.children) : m % 2 = 1}}
      [] current.type \in {"atom", "star_expr"} ->
           DefinedNamesOfTarget(current.children[2])
      [] current.type \in {"power", "atom_expr"} ->
           LET n == Len(current.children)
               trailer == current.children[n]
           IN IF ~EqualsString(current.children[n - 1], "**")
                 /\ EqualsString(trailer.children[1], ".")
              THEN {trailer.children[2]}
              ELSE {}
      [] OTHER -> {current}

\* ExprStmt.get_defined_names(): the nodes defined by the target of an
\* annotated assignment and by every target followed by an operator that
\* holds "=".
DefinedNames(expr) ==
    LET names == IF expr.children[2].type = "annassign"
                 THEN DefinedNamesOfTarget(expr.children[1]) ELSE {}
    IN UNION {DefinedNamesOfTarget(expr.children[i]) :
                 i \in {m \in 1..(Len(expr.children) - 2) :
                          m % 2 = 1 /\ expr.children[m + 1].value \in ValuesWithEquals}}
       \cup names

\* Lines 108-110 for one statement: expr_node.get_rhs().children must exist.
\* causes are the values of the leaves collected, effects the nodes.
ExprCausesEffects(expr) ==
    IF expr.cls # "ExprStmt" \/ IsLeaf(GetRhs(expr))
    THEN [err |-> "AttributeError", causes |-> {}, effects |-> {}]
    ELSE [err |-> "none", causes |-> LeafValues(GetRhs(expr)), effects |-> DefinedNames(expr)]

Merge(a, b) ==
    [err |-> IF a.err # "none" THEN a.err ELSE b.err,
     causes |-> a.causes \cup b.causes, effects |-> a.effects \cup b.effects]

NoCausesEffects == [err |-> "none", causes |-> {}, effects |-> {}]

\* Lines 88-111: _get_cause_and_effect_nodes_from_suite_node, as the values
\* of the nodes it collects.
RECURSIVE CausesEffectsOfSuite(_), CausesEffectsOfChildren(_, _), CausesEffectsOfIf(_, _)
CausesEffectsOfSuite(suite_node) == CausesEffectsOfChildren(suite_node.children, 1)

\* Lines 93-98 and 108-110: the children of the suite from the k-th on.
CausesEffectsOfChildren(children, k) ==
    IF k > Len(children) THEN NoCausesEffects
    ELSE LET child_node == children[k]
             here ==
               CASE child_node.cls = "ExprStmt" -> ExprCausesEffects(child_node)
                 [] child_node.cls = "PythonNode" -> ExprCausesEffects(child_node.children[1])
                 [] child_node.cls = "IfStmt" -> CausesEffectsOfIf(child_node.children, 1)
                 [] OTHER -> NoCausesEffects
         IN Merge(here, CausesEffectsOfChildren(children, k + 1))

\* Lines 99-106: the children of a nested if statement from the g-th on.
CausesEffectsOfIf(grandchildren, g) ==
    IF g > Len(grandchildren) THEN NoCausesEffects
    ELSE LET grandchild_node == grandchildren[g]
             here ==
               CASE grandchild_node.cls = "PythonNode" /\ grandchild_node.type = "suite" ->
                      CausesEffectsOfSuite(grandchild_node)
                 [] grandchild_node.cls = "PythonNode" /\ grandchild_node.type = "comparison" ->
                      [err |-> "none", causes |-> LeafValues(grandchild_node), effects |-> {}]
                 [] OTHER -> NoCausesEffects
         IN Merge(here, CausesEffectsOfIf(grandchildren, g + 1))

\* Lines 27-37: whether mutation_positions yields the suite, or raises.
MutationPositions(node, parent_has_else, cause_variable, effect_variable) ==
    IF parent_has_else THEN "skipped"
    ELSE LET ce == CausesEffectsOfSuite(node) IN
         IF ce.err # "none" THEN ce.err
         \* line 34: effect.value exists on a leaf only
         ELSE IF \E effect \in ce.effects : ~IsLeaf(effect) THEN "AttributeError"
         ELSE LET named_effects == {effect.value : effect \in ce.effects} IN
              IF effect_variable \in named_effects /\ cause_variable \in ce.causes
              THEN "site" ELSE "skipped"

\* The k-th value random.randint returns.
Draw(rs, k) == rs[k]

\* Lines 151-164: _replace_named_variable_in_expr.  k counts the calls of
\* randint made so far; the result is the new node and the new count.
RECURSIVE ReplaceNamedVariable(_, _, _, _), ReplaceInChildren(_, _, _, _, _)
ReplaceNamedVariable(node, variable_name, rs, k) ==
    IF IsLeaf(node)
    THEN IF node.value = variable_name
         THEN [node |-> Number(ToString(Draw(rs, k + 1))), k |-> k + 1]
         ELSE [node |-> node, k |-> k]
    ELSE LET r == ReplaceInChildren(node.children, 1, variable_name, rs, k) IN
         [node |-> [node EXCEPT !.children = r.children], k |-> r.k]

\* Lines 160-162: the children from the i-th on.
ReplaceInChildren(children, i, variable_name, rs, k) ==
    IF i > Len(children) THEN [children |-> <<>>, k |-> k]
    ELSE LET first == ReplaceNamedVariable(children[i], variable_name, rs, k)
             rest == ReplaceInChildren(children, i + 1, variable_name, rs, first.k)
         IN [children |-> <<first.node>> \o rest.children, k |-> rest.k]

\* Lines 72-75: in a comparison only children[0], its left operand, is rewritten.
ReplaceInPredicate(comparison, variable_name, rs, k) ==
    LET new_arith_expr == ReplaceNamedVariable(comparison.children[1], variable_name, rs, k) IN
    [node |-> [comparison EXCEPT !.children[1] = new_arith_expr.node], k |-> new_arith_expr.k]

\* Lines 70-78: the children of a nested if statement from the g-th on.
RECURSIVE ReplaceInIf(_, _, _, _, _)
ReplaceInIf(grandchildren, g, variable_name, rs, k) ==
    IF g > Len(grandchildren) THEN [children |-> <<>>, k |-> k]
    ELSE LET grandchild_node == grandchildren[g]
             first ==
               CASE grandchild_node.cls = "PythonNode" /\ grandchild_node.type = "comparison" ->
                      ReplaceInPredicate(grandchild_node, variable_name, rs, k)
                 [] grandchild_node.cls = "PythonNode" /\ grandchild_node.type = "suite" ->
                      ReplaceNamedVariable(grandchild_node, variable_name, rs, k)
                 [] OTHER -> [node |-> grandchild_node, k |-> k]
             rest == ReplaceInIf(grandchildren, g + 1, variable_name, rs, first.k)
         IN [children |-> <<first.node>> \o rest.children, k |-> rest.k]

\* Lines 62-78: the first loop over the suite's children rewrites the nested
\* if statements in place.
RECURSIVE ReplaceInIfsOfSuite(_, _, _, _, _)
ReplaceInIfsOfSuite(children, p, variable_name, rs, k) ==
    IF p > Len(children) THEN [children |-> <<>>, k |-> k]
    ELSE LET child_node == children[p]
             first ==
               IF child_node.cls = "IfStmt"
               THEN LET r == ReplaceInIf(child_node.children, 1, variable_name, rs, k) IN
                    [node |-> [child_node EXCEPT !.children = r.children], k |-> r.k]
               ELSE [node |-> child_node, k |-> k]
             rest == ReplaceInIfsOfSuite(children, p + 1, variable_name, rs, first.k)
         IN [children |-> <<first.node>> \o rest.children, k |-> rest.k]

\* The children of an ExprStmt with new_rhs where get_rhs() found the
\* right-hand side.
WithRhs(children, new_rhs) ==
    LET last == Len(children)
        node == children[last]
    IN IF node.type = "annassign"
       THEN [children EXCEPT
                ![last].children[IF Len(node.children) = 4 THEN 4 ELSE 2] = new_rhs]
       ELSE [children EXCEPT ![last] = new_rhs]

\* Lines 82-84 for one expr_node.  A right-hand side that is not a leaf is
\* rewritten where it is; then the result is stored as children[2], which
\* raises IndexError on an ExprStmt of two children (an annotated assignment).
ReplaceRhs(expr_node, variable_name, rs, k) ==
    IF expr_node.cls # "ExprStmt"
    THEN [err |-> "AttributeError", node |-> expr_node, k |-> k]
    ELSE LET rhs == GetRhs(expr_node)
             new_rhs == ReplaceNamedVariable(rhs, variable_name, rs, k)
             in_place == IF IsLeaf(rhs) THEN expr_node.children
                         ELSE WithRhs(expr_node.children, new_rhs.node)
         IN IF Len(expr_node.children) < 3
            THEN [err |-> "IndexError",
                  node |-> [expr_node EXCEPT !.children = in_place],
                  k |-> new_rhs.k]
            ELSE [err |-> "none",
                  node |-> [expr_node EXCEPT !.children = [in_place EXCEPT ![3] = new_rhs.node]],
                  k |-> new_rhs.k]

\* Lines 62-67 and 81-84: the second loop rewrites the statements collected
\* from the suite's children, from the p-th child on.  An exception ends the
\* loop: the statements after the one that raised are left as they are.
RECURSIVE ReplaceInExprsOfSuite(_, _, _, _, _)
ReplaceInExprsOfSuite(children, p, variable_name, rs, k) ==
    IF p > Len(children) THEN [err |-> "none", children |-> <<>>, k |-> k]
    ELSE LET child_node == children[p]
             first ==
               CASE child_node.cls = "ExprStmt" ->
                      ReplaceRhs(child_node, variable_name, rs, k)
                 [] child_node.cls = "PythonNode" ->
                      LET r == ReplaceRhs(child_node.children[1], variable_name, rs, k) IN
                      [err |-> r.err, node |-> [child_node EXCEPT !.children[1] = r.node], k |-> r.k]
                 [] OTHER -> [err |-> "none", node |-> child_node, k |-> k]
         IN IF first.err # "none"
            THEN [err |-> first.err,
                  children |-> <<first.node>> \o SubSeq(children, p + 1, Len(children)),
                  k |-> first.k]
            ELSE LET rest == ReplaceInExprsOfSuite(children, p + 1, variable_name, rs, first.k) IN
                 [err |-> rest.err, children |-> <<first.node>> \o rest.children, k |-> rest.k]

\* Lines 60-86: _replace_causes_in_suite.
ReplaceCausesInSuite(node, cause_variable, rs) ==
    LET ifs == ReplaceInIfsOfSuite(node.children, 1, cause_variable, rs, 0)
        exprs == ReplaceInExprsOfSuite(ifs.children, 1, cause_variable, rs, ifs.k)
    IN [err |-> exprs.err, node |-> [node EXCEPT !.children = exprs.children]]

RInit ==
    /\ r_suite \in Suites
    /\ r_orig = r_suite
    /\ r_cause \in {"x", "z"}
    /\ r_effect \in {"y", "w"}
    /\ r_parent_else \in BOOLEAN
    /\ r_rand \in [1..MaxDraws -> RandintSamples]
    /\ r_pc = "parsed"
    \* the distributor and the other operator are not in use
    /\ work_db = <<>>
    /\ test_command = <<>>
    /\ timeout = 1
    /\ pending_work = <<>>
    /\ pc = "unused"
    /\ pos = 0
    /\ running = {}
    /\ calls = <<>>
    /\ execs = <<>>
    /\ result = NoOutcome
    /\ notified = <<>>
    /\ error = "none"
    /\ runs = 0
    /\ start_db = <<>>
    /\ on_task_complete = "unused"
    /\ decorator_list = <<>>
    /\ dec_orig = <<>>
    /\ dec_pc = "unused"
    /\ dec_variants = 0
    /\ dec_idx = 0

\* Lines 15-37: mutation_positions(node) on the suite.
VisitSuite ==
    /\ r_pc = "parsed"
    /\ r_pc' = MutationPositions(r_suite, r_parent_else, r_cause, r_effect)
    /\ UNCHANGED <<r_cause, r_effect, r_parent_else, r_suite, r_orig, r_rand>>
    /\ UNCHANGED <<dvars, ovars>>

\* Lines 39-58: mutate(node, index) on a suite mutation_positions yielded.
MutateSuite ==
    /\ r_pc = "site"
    /\ LET no_causes_node == ReplaceCausesInSuite(r_suite, r_cause, r_rand) IN
       /\ r_suite' = no_causes_node.node
       /\ r_pc' = IF no_causes_node.err = "none" THEN "mutated" ELSE no_causes_node.err
    /\ UNCHANGED <<r_cause, r_effect, r_parent_else, r_orig, r_rand>>
    /\ UNCHANGED <<dvars, ovars>>

RNext == VisitSuite \/ MutateSuite

SpecReplacer == RInit /\ [][RNext]_vars

\* The children of the suite that are assignment statements, as ExprStmt nodes.
OwnStatements(suite_node) ==
    {IF suite_node.children[p].cls = "ExprStmt" THEN suite_node.children[p]
     ELSE suite_node.children[p].children[1] :
        p \in {q \in 1..Len(suite_node.children) :
                 suite_node.children[q].cls \in {"ExprStmt", "PythonNode"}}}

\* The if statements nested in the suite.
NestedIfs(suite_node) ==
    {suite_node.children[p] :
        p \in {q \in 1..Len(suite_node.children) : suite_node.children[q].cls = "IfStmt"}}

\* C10: after mutate no usage of the cause variable is left in the predicate
\* or the branches of an if statement nested in the suite, nor in the
\* right-hand side of the suite's own assignment statements.
C10_CauseAbsent ==
    (r_pc = "mutated") =>
        /\ \A s \in NestedIfs(r_suite) : r_cause \notin LeafValues(s)
        /\ \A e \in OwnStatements(r_suite) : r_cause \notin LeafValues(GetRhs(e))

\* The strings of the constants randint can return.
RandintStrings == {ToString(c) : c \in RandintLow..RandintHigh}

\* C10 with the predicates left out: no usage of the cause variable is left
\* in the branches of the nested if statements, in the left operand of their
\* comparisons, or in the right-hand side of the suite's own assignments.
CauseAbsentButInPredicates ==
    (r_pc = "mutated") =>
        /\ \A s \in NestedIfs(r_suite) : \A g \in 1..Len(s.children) :
              LET gc == s.children[g] IN
              /\ (gc.cls = "PythonNode" /\ gc.type = "suite") => r_cause \notin LeafValues(gc)
              /\ (gc.cls = "PythonNode" /\ gc.type = "comparison")
                     => r_cause \notin LeafValues(gc.children[1])
        /\ \A e \in OwnStatements(r_suite) : r_cause \notin LeafValues(GetRhs(e))

====
